---- MODULE Spec2Model ----
(***************************************************************************)
(* A model of the order-intake validation and bounding-box grid snapping   *)
(* of gfdrr_det/serializers.py (hev-e).                                    *)
(*                                                                         *)
(* Coordinates and resolutions are integers (whole degrees).  On integers  *)
(* Python's int arithmetic, itertools.count and float() are exact, so the  *)
(* model follows the code exactly on integer-valued inputs; the rounding   *)
(* of accumulated binary fractions (resolution 0.01) is not modelled.      *)
(*                                                                         *)
(* Four specifications share the variables:                                *)
(*   GridSpec  generate_1d_grid, one step per loop iteration               *)
(*   SnapSpec  snap_value and enlarge_coordinate on arbitrary grids        *)
(*   BBoxSpec  snap_bbox_to_grid on boxes inside the lon/lat ranges        *)
(*   Spec      OrderSerializer.to_internal_value, one step per order item  *)
(***************************************************************************)
EXTENDS Integers, Sequences, FiniteSets

VARIABLES
    pc,               \* position of the running function
    error,            \* the exception raised, NoError while none
    start,            \* generate_1d_grid: start
    end,              \* generate_1d_grid: end
    resolution,       \* generate_1d_grid / snap_bbox_to_grid: resolution
    i,                \* generate_1d_grid: the loop variable of count()
    grid,             \* generate_1d_grid: grid; snap_value: grid
    value,            \* snap_value / enlarge_coordinate: value
    floor,            \* enlarge_coordinate: floor
    snapped,          \* outcome of snap_value(value, grid)
    result,           \* outcome of enlarge_coordinate(value, grid, floor)
    bbox,             \* snap_bbox_to_grid: x0, y0, x1, y1
    snapped_bbox,     \* outcome of snap_bbox_to_grid(resolution, **bbox)
    resnapped_bbox,   \* outcome of snapping snapped_bbox once more
    grid_resolution,  \* settings.HEV_E["general"].get("bbox_snap_resolution")
    data,             \* to_internal_value: the request payload
    requested_items,  \* to_internal_value: the items of the payload iterated so far
    item_index,       \* to_internal_value: number of items iterated so far
    order_items,      \* to_internal_value: order_items
    internal_value    \* what to_internal_value returned

vars == <<pc, error, start, end, resolution, i, grid, value, floor, snapped,
          result, bbox, snapped_bbox, resnapped_bbox, grid_resolution, data,
          requested_items, item_index, order_items, internal_value>>

(***************************************************************************)
(* Bounds of the model.                                                    *)
(***************************************************************************)
\* start and end of generate_1d_grid, and grid values, range over -MaxCoord..MaxCoord
MaxCoord == 3
\* resolutions of generate_1d_grid range over -MaxStep..MaxStep
MaxStep == 3
\* raw values given to snap_value range over -MaxValue..MaxValue
MaxValue == 5
\* list cells the interpreter can allocate before list.append raises MemoryError
MemoryCells == 32
\* box coordinates are taken within EdgeWidth of the range ends and of zero
EdgeWidth == 1
\* most order items in one request
MaxItems == 2

(***************************************************************************)
(* Exceptions.                                                             *)
(***************************************************************************)
NoError == [kind |-> "none", detail |-> ""]
ValidationError(field) == [kind |-> "ValidationError", detail |-> field]
RuntimeError(msg) == [kind |-> "RuntimeError", detail |-> msg]
MemoryError == [kind |-> "MemoryError", detail |-> ""]
ZeroResolutionError == RuntimeError("grid resolution cannot be zero")
CouldNotSnapError == RuntimeError("Could not snap value")

\* float(i) of an int i: exact below 2^53, which all modelled values are
ToFloat(n) == n

Abs(n) == IF n < 0 THEN -n ELSE n

\* Python's max(grid) of a non-empty list
PyMax(s) ==
    CHOOSE m \in {s[k] : k \in 1..Len(s)} : \A k \in 1..Len(s) : m >= s[k]

(***************************************************************************)
(* Python list access.                                                     *)
(***************************************************************************)
\* whether grid[k] (k counted from 0, negative k from the end) is an element;
\* outside this range list.__getitem__ raises IndexError
PyHasIndex(s, k) == -Len(s) <= k /\ k < Len(s)

\* grid[k]: a negative k counts from the end of the list
PyGetItem(s, k) == IF k >= 0 THEN s[k + 1] ELSE s[Len(s) + k + 1]

\* grid.index(x): the position, from 0, of the first element equal to x
PyIndex(s, x) == (CHOOSE k \in 1..Len(s) : s[k] = x /\ \A j \in 1..(k - 1) : s[j] # x) - 1

\* x in grid, for the outcome of the scan of snap_value (None is in no grid)
PyContains(s, r) == r.found /\ \E k \in 1..Len(s) : s[k] = r.item

(***************************************************************************)
(* generate_1d_grid as a function of its arguments.                        *)
(***************************************************************************)
\* a slip: the loop also breaks at end itself
MutLoopBreaks(n, last) == n >= last

\* the break test of the loop over count(start, step=resolution): if i > end
LoopBreaks(n, last) == n > last

\* the for loop: g is the list built so far, n the value count() yields next
RECURSIVE GridLoop(_, _, _, _)
GridLoop(n, last, step, g) ==
    IF LoopBreaks(n, last) THEN [error |-> NoError, grid |-> g]
    ELSE IF Len(g) >= MemoryCells THEN [error |-> MemoryError, grid |-> <<>>]
    ELSE GridLoop(n + step, last, step, Append(g, ToFloat(n)))

Generate1dGrid(first, last, step) ==
    IF step = 0 THEN [error |-> ZeroResolutionError, grid |-> <<>>]
    ELSE GridLoop(first, last, step, <<>>)

(***************************************************************************)
(* snap_value                                                              *)
(***************************************************************************)
NoneResult == [found |-> FALSE, item |-> 0]

\* best_delta = max(grid) + 1
InitialBestDelta(g) == PyMax(g) + 1

\* the scan "for item in grid", from position k (counted from 1)
RECURSIVE SnapLoop(_, _, _, _, _)
SnapLoop(v, g, k, best_delta, res) ==
    IF k > Len(g) THEN res
    ELSE LET item == g[k]
             delta == Abs(v - item)
             closer == delta < best_delta
             res2 == IF closer THEN [found |-> TRUE, item |-> item] ELSE res
             best2 == IF closer THEN delta ELSE best_delta
         IN  IF delta = 0 THEN res2
             ELSE SnapLoop(v, g, k + 1, best2, res2)

\* if result not in grid: raise RuntimeError(...); return result
SnapResult(g, res) ==
    IF ~PyContains(g, res) THEN [error |-> CouldNotSnapError, item |-> 0]
    ELSE [error |-> NoError, item |-> res.item]

SnapValue(v, g) ==
    IF g = <<>> THEN [error |-> [kind |-> "ValueError", detail |-> "max() arg is an empty sequence"],
                      item |-> 0]
    ELSE SnapResult(g, SnapLoop(v, g, 1, InitialBestDelta(g), NoneResult))

(***************************************************************************)
(* enlarge_coordinate                                                      *)
(***************************************************************************)
\* grid[grid.index(snapped) + offset], with the fallback of "except IndexError"
NextOrSnapped(g, s, offset) ==
    LET k == PyIndex(g, s) + offset
    IN  IF PyHasIndex(g, k) THEN PyGetItem(g, k) ELSE s

\* a slip: a value that is on the grid is stepped back too
MutFloorResult(v, s, next_) == IF s < v THEN s ELSE next_

\* result = snapped if snapped <= value else next_
FloorResult(v, s, next_) == IF s <= v THEN s ELSE next_

\* result = snapped if snapped >= value else next_
CeilResult(v, s, next_) == IF s >= v THEN s ELSE next_

\* the statements after "snapped = snap_value(value, grid)"; s is its outcome
EnlargeSnapped(v, g, fl, s) ==
    IF s.error # NoError THEN s
    ELSE IF fl
         THEN [error |-> NoError, item |-> FloorResult(v, s.item, NextOrSnapped(g, s.item, -1))]
         ELSE [error |-> NoError, item |-> CeilResult(v, s.item, NextOrSnapped(g, s.item, 1))]

EnlargeCoordinate(v, g, fl) == EnlargeSnapped(v, g, fl, SnapValue(v, g))

(***************************************************************************)
(* snap_bbox_to_grid                                                       *)
(***************************************************************************)
LonMin == -180
LonMax == 180
LatMin == -90
LatMax == 90

NoBox == [x0 |-> 0, y0 |-> 0, x1 |-> 0, y1 |-> 0]

\* the first exception among the outcomes, in evaluation order
FirstError(outcomes) ==
    IF \A k \in 1..Len(outcomes) : outcomes[k].error = NoError THEN NoError
    ELSE outcomes[CHOOSE k \in 1..Len(outcomes) :
                      /\ outcomes[k].error # NoError
                      /\ \A j \in 1..(k - 1) : outcomes[j].error = NoError].error

\* the dict that snap_bbox_to_grid returns, from the outcomes of its four
\* enlarge_coordinate calls
SnappedBox(ex0, ey0, ex1, ey1) ==
    IF FirstError(<<ex0, ey0, ex1, ey1>>) # NoError
    THEN [error |-> FirstError(<<ex0, ey0, ex1, ey1>>), box |-> NoBox]
    ELSE [error |-> NoError,
          box |-> [x0 |-> ex0.item, y0 |-> ey0.item, x1 |-> ex1.item, y1 |-> ey1.item]]

\* snap_bbox_to_grid once x_grid and y_grid are generated
SnapBboxOnGrids(b, x_grid, y_grid) ==
    IF x_grid.error # NoError THEN [error |-> x_grid.error, box |-> NoBox]
    ELSE IF y_grid.error # NoError THEN [error |-> y_grid.error, box |-> NoBox]
    ELSE SnappedBox(EnlargeCoordinate(b.x0, x_grid.grid, TRUE),
                    EnlargeCoordinate(b.y0, y_grid.grid, TRUE),
                    EnlargeCoordinate(b.x1, x_grid.grid, FALSE),
                    EnlargeCoordinate(b.y1, y_grid.grid, FALSE))

SnapBboxToGrid(res, b) ==
    SnapBboxOnGrids(b, Generate1dGrid(LonMin, LonMax, res),
                    Generate1dGrid(LatMin, LatMax, res))

(***************************************************************************)
(* Values of the variables a specification does not use.                   *)
(***************************************************************************)
NoOutcome == [error |-> NoError, item |-> 0]
NoBoxOutcome == [error |-> NoError, box |-> NoBox]
NoData == [has_order_items |-> FALSE, n_items |-> 0]
NotReturned == [returned |-> FALSE, order_items |-> <<>>, has_email |-> FALSE]

GridFrameIdle == start = 0 /\ end = 0 /\ i = 0
SnapFrameIdle == value = 0 /\ floor = FALSE /\ snapped = NoOutcome /\ result = NoOutcome
BBoxFrameIdle == bbox = NoBox /\ snapped_bbox = NoBoxOutcome /\ resnapped_bbox = NoBoxOutcome
NoResolution == [configured |-> FALSE, value |-> 0]
OrderFrameIdle ==
    /\ grid_resolution = NoResolution
    /\ data = NoData
    /\ requested_items = <<>>
    /\ item_index = 0
    /\ order_items = <<>>
    /\ internal_value = NotReturned

gridFrame == <<start, end, i>>
snapFrame == <<value, floor, snapped, result>>
bboxFrame == <<bbox, snapped_bbox, resnapped_bbox>>
orderFrame == <<grid_resolution, data, requested_items, item_index, order_items,
                internal_value>>

(***************************************************************************)
(* GridSpec: generate_1d_grid(start, end, resolution), statement by        *)
(* statement.  list.append raises MemoryError once MemoryCells cells are   *)
(* in use, which is how a loop that never breaks ends.                     *)
(***************************************************************************)
Coords == (-MaxCoord)..MaxCoord
Steps == (-MaxStep)..MaxStep

GridInit ==
    /\ pc = "generate_1d_grid"
    /\ error = NoError
    /\ start \in Coords
    /\ end \in Coords
    /\ resolution \in Steps
    /\ i = 0
    /\ grid = <<>>
    /\ SnapFrameIdle /\ BBoxFrameIdle /\ OrderFrameIdle

\* if resolution == 0: raise RuntimeError("grid resolution cannot be zero")
GridRaiseZero ==
    /\ pc = "generate_1d_grid"
    /\ resolution = 0
    /\ pc' = "raised"
    /\ error' = ZeroResolutionError
    /\ UNCHANGED <<start, end, resolution, i, grid, snapFrame, bboxFrame, orderFrame>>

\* grid = []; the first value of count(start=start, step=resolution)
GridEnterLoop ==
    /\ pc = "generate_1d_grid"
    /\ resolution # 0
    /\ pc' = "loop"
    /\ grid' = <<>>
    /\ i' = start
    /\ UNCHANGED <<error, start, end, resolution, snapFrame, bboxFrame, orderFrame>>

\* grid.append(float(i)), then the next value of count()
GridAppend ==
    /\ pc = "loop"
    /\ ~LoopBreaks(i, end)
    /\ Len(grid) < MemoryCells
    /\ grid' = Append(grid, ToFloat(i))
    /\ i' = i + resolution
    /\ UNCHANGED <<pc, error, start, end, resolution, snapFrame, bboxFrame, orderFrame>>

\* grid.append cannot grow the list any more
GridOutOfMemory ==
    /\ pc = "loop"
    /\ ~LoopBreaks(i, end)
    /\ Len(grid) >= MemoryCells
    /\ pc' = "raised"
    /\ error' = MemoryError
    /\ UNCHANGED <<start, end, resolution, i, grid, snapFrame, bboxFrame, orderFrame>>

\* if i > end: break; return grid
GridReturn ==
    /\ pc = "loop"
    /\ LoopBreaks(i, end)
    /\ pc' = "done"
    /\ UNCHANGED <<error, start, end, resolution, i, grid, snapFrame, bboxFrame, orderFrame>>

GridNext ==
    \/ GridRaiseZero
    \/ GridEnterLoop
    \/ GridAppend
    \/ GridOutOfMemory
    \/ GridReturn

GridSpec == GridInit /\ [][GridNext]_vars

(***************************************************************************)
(* Claims about generate_1d_grid (GridSpec).                               *)
(***************************************************************************)
\* the values start + k*resolution, k >= 0, that do not exceed end, for resolution > 0
ProgressionUpToEnd ==
    {v \in {start + k * resolution : k \in 0..(2 * MaxCoord)} : v <= end}

\* the loop of GridSpec returns what Generate1dGrid computes
GridLoopAgrees ==
    pc = "done" => Generate1dGrid(start, end, resolution) = [error |-> NoError, grid |-> grid]

\* C3: for every nonzero resolution, positive or negative, generate_1d_grid
\* terminates (it raises nothing) and returns exactly start, start+resolution,
\* start+2*resolution, ... in that order, up to but excluding the first value
\* that exceeds end.
C3_TerminatesWithProgression ==
    resolution # 0 =>
        /\ pc # "raised"
        /\ pc = "done" =>
              \E n \in 0..MemoryCells :
                  /\ start + n * resolution > end
                  /\ \A k \in 0..(n - 1) : start + k * resolution <= end
                  /\ Len(grid) = n
                  /\ \A j \in 1..n : grid[j] = start + (j - 1) * resolution

\* C4: for every resolution > 0 the returned grid is strictly ascending and
\* its last element is the largest start + k*resolution (k >= 0) that does not
\* exceed end; the grid is empty exactly when no such value exists.
C4_AscendingUpToLargest ==
    resolution > 0 =>
        /\ pc # "raised"
        /\ pc = "done" =>
              /\ \A k \in 1..(Len(grid) - 1) : grid[k] < grid[k + 1]
              /\ (grid = <<>>) = (ProgressionUpToEnd = {})
              /\ grid # <<>> =>
                    /\ grid[Len(grid)] \in ProgressionUpToEnd
                    /\ \A v \in ProgressionUpToEnd : v <= grid[Len(grid)]

\* a grid whose resolution does not divide the span has been returned
C4_Witness ==
    /\ pc = "done"
    /\ start = -3 /\ end = 2 /\ resolution = 2
    /\ grid = <<-3, -1, 1>>

(***************************************************************************)
(* SnapSpec: enlarge_coordinate(value, grid, floor) and the snap_value it  *)
(* calls, on every strictly ascending non-empty grid over Coords.          *)
(***************************************************************************)
Min(S) == CHOOSE m \in S : \A x \in S : m <= x
Max(S) == CHOOSE m \in S : \A x \in S : m >= x

\* the elements of S in ascending order
RECURSIVE Ascending(_)
Ascending(S) == IF S = {} THEN <<>> ELSE <<Min(S)>> \o Ascending(S \ {Min(S)})

AscendingGrids == {Ascending(S) : S \in (SUBSET Coords) \ {{}}}
Values == (-MaxValue)..MaxValue

SnapInit ==
    /\ pc = "enlarge_coordinate"
    /\ error = NoError
    /\ grid \in AscendingGrids
    /\ value \in Values
    /\ floor \in BOOLEAN
    /\ snapped = NoOutcome
    /\ result = NoOutcome
    /\ resolution = 0
    /\ GridFrameIdle /\ BBoxFrameIdle /\ OrderFrameIdle

\* snapped = snap_value(value, grid): snap_value returns
SnapReturns(outcome) ==
    /\ outcome.error = NoError
    /\ snapped' = outcome
    /\ pc' = "snapped"
    /\ UNCHANGED error

SnapReturn ==
    /\ pc = "enlarge_coordinate"
    /\ SnapReturns(SnapValue(value, grid))
    /\ UNCHANGED <<resolution, grid, value, floor, result,
                   gridFrame, bboxFrame, orderFrame>>

\* snapped = snap_value(value, grid): snap_value raises
SnapRaises(outcome) ==
    /\ outcome.error # NoError
    /\ snapped' = outcome
    /\ error' = outcome.error
    /\ pc' = "raised"

SnapRaise ==
    /\ pc = "enlarge_coordinate"
    /\ SnapRaises(SnapValue(value, grid))
    /\ UNCHANGED <<resolution, grid, value, floor, result,
                   gridFrame, bboxFrame, orderFrame>>

\* the floor / not floor branch and "return result"
EnlargeReturn ==
    /\ pc = "snapped"
    /\ result' = EnlargeSnapped(value, grid, floor, snapped)
    /\ pc' = "done"
    /\ UNCHANGED <<error, resolution, grid, value, floor, snapped,
                   gridFrame, bboxFrame, orderFrame>>

SnapNext ==
    \/ SnapReturn
    \/ SnapRaise
    \/ EnlargeReturn

SnapSpec == SnapInit /\ [][SnapNext]_vars

(***************************************************************************)
(* Claims about snap_value and enlarge_coordinate (SnapSpec).              *)
(***************************************************************************)
GridSet == {grid[k] : k \in 1..Len(grid)}

\* the position of the earliest element of grid at minimum distance from value
NearestIndex ==
    CHOOSE k \in 1..Len(grid) :
        /\ \A j \in 1..Len(grid) : Abs(value - grid[k]) <= Abs(value - grid[j])
        /\ \A j \in 1..(k - 1) : Abs(value - grid[j]) > Abs(value - grid[k])

\* C2: for every target value and every non-empty ordered grid, snap_value
\* returns the grid element at minimum absolute distance from the target, the
\* earliest one on a tie.
C2_SnapReturnsNearest ==
    pc \in {"snapped", "raised", "done"} =>
        /\ snapped.error = NoError
        /\ snapped.item = grid[NearestIndex]

\* C5: with floor=true, when the snapped value is the first grid element and
\* exceeds the raw value, the result is the snapped value; with floor=false,
\* when the snapped value is the last grid element and is below the raw
\* value, the result is the snapped value.
C5_FallbackIsSnapped ==
    pc = "done" =>
        /\ (floor /\ snapped.item = grid[1] /\ snapped.item > value)
               => result.item = snapped.item
        /\ (~floor /\ snapped.item = grid[Len(grid)] /\ snapped.item < value)
               => result.item = snapped.item

\* C9: for every ascending grid and every raw value between its first and its
\* last element, enlarge_coordinate returns the greatest grid value <= value
\* (floor=true) or the least grid value >= value (floor=false).
C9_TightestEnlargement ==
    (pc \in {"raised", "done"} /\ grid[1] <= value /\ value <= grid[Len(grid)]) =>
        /\ pc = "done"
        /\ result.error = NoError
        /\ floor => result.item = Max({g \in GridSet : g <= value})
        /\ ~floor => result.item = Min({g \in GridSet : g >= value})

(***************************************************************************)
(* BBoxSpec: snap_bbox_to_grid(resolution, x0, y0, x1, y1) on boxes that   *)
(* pass the range validation of _parse_bbox, then the same call on the     *)
(* box it returned.                                                        *)
(***************************************************************************)
\* resolutions that divide both spans (20, 60), one that divides neither (25),
\* one coarser than half the latitude span (100), one wider than both spans (400)
Resolutions == {20, 25, 60, 100, 400}

\* the values of lo..hi within EdgeWidth of lo, of hi or of zero
NearEdges(lo, hi) ==
    {v \in lo..hi : v - lo <= EdgeWidth \/ hi - v <= EdgeWidth \/ Abs(v) <= EdgeWidth}

Boxes ==
    [x0 : NearEdges(LonMin, LonMax), y0 : NearEdges(LatMin, LatMax),
     x1 : NearEdges(LonMin, LonMax), y1 : NearEdges(LatMin, LatMax)]

BBoxInit ==
    /\ pc = "snap_bbox_to_grid"
    /\ error = NoError
    /\ resolution \in Resolutions
    /\ bbox \in Boxes
    /\ snapped_bbox = NoBoxOutcome
    /\ resnapped_bbox = NoBoxOutcome
    /\ grid = <<>>
    /\ GridFrameIdle /\ SnapFrameIdle /\ OrderFrameIdle

\* snap_bbox_to_grid returns the snapped box
BBoxReturns(outcome) ==
    /\ outcome.error = NoError
    /\ snapped_bbox' = outcome
    /\ pc' = "snapped_bbox"
    /\ UNCHANGED error

BBoxReturn ==
    /\ pc = "snap_bbox_to_grid"
    /\ BBoxReturns(SnapBboxToGrid(resolution, bbox))
    /\ UNCHANGED <<resolution, grid, bbox, resnapped_bbox,
                   gridFrame, snapFrame, orderFrame>>

\* an exception leaves snap_bbox_to_grid
BBoxRaises(outcome) ==
    /\ outcome.error # NoError
    /\ snapped_bbox' = outcome
    /\ error' = outcome.error
    /\ pc' = "raised"

BBoxRaise ==
    /\ pc = "snap_bbox_to_grid"
    /\ BBoxRaises(SnapBboxToGrid(resolution, bbox))
    /\ UNCHANGED <<resolution, grid, bbox, resnapped_bbox,
                   gridFrame, snapFrame, orderFrame>>

\* snap_bbox_to_grid(resolution, **snapped_bbox)
BBoxResnaps(outcome) ==
    /\ resnapped_bbox' = outcome
    /\ error' = outcome.error
    /\ pc' = "resnapped"

BBoxResnap ==
    /\ pc = "snapped_bbox"
    /\ BBoxResnaps(SnapBboxToGrid(resolution, snapped_bbox.box))
    /\ UNCHANGED <<resolution, grid, bbox, snapped_bbox,
                   gridFrame, snapFrame, orderFrame>>

BBoxNext ==
    \/ BBoxReturn
    \/ BBoxRaise
    \/ BBoxResnap

BBoxSpec == BBoxInit /\ [][BBoxNext]_vars

(***************************************************************************)
(* Claims about snap_bbox_to_grid (BBoxSpec).                              *)
(***************************************************************************)
Contains(outer, inner) ==
    /\ outer.x0 <= inner.x0
    /\ outer.y0 <= inner.y0
    /\ outer.x1 >= inner.x1
    /\ outer.y1 >= inner.y1

Elements(s) == {s[k] : k \in 1..Len(s)}

OnGrid(b, res) ==
    LET xs == Elements(Generate1dGrid(LonMin, LonMax, res).grid)
        ys == Elements(Generate1dGrid(LatMin, LatMax, res).grid)
    IN  b.x0 \in xs /\ b.x1 \in xs /\ b.y0 \in ys /\ b.y1 \in ys

\* C1: for every resolution > 0 and every box inside the ranges, the box
\* snap_bbox_to_grid returns contains the input box, also when the resolution
\* does not divide the 360 / 180 degree span.
C1_SnappedContainsInput ==
    pc \in {"snapped_bbox", "resnapped"} => Contains(snapped_bbox.box, bbox)

\* C10: snapping the already snapped box with the same resolution returns
\* that box unchanged, and every coordinate of it is an element of the
\* longitude / latitude grid.
C10_SnapIdempotent ==
    /\ pc \in {"snapped_bbox", "resnapped"} => OnGrid(snapped_bbox.box, resolution)
    /\ pc = "resnapped" => resnapped_bbox = snapped_bbox

\* a box whose upper edges lie above the last grid values was snapped twice
C10_Witness ==
    /\ pc = "resnapped"
    /\ resolution = 25
    /\ bbox = [x0 |-> -1, y0 |-> 1, x1 |-> 179, y1 |-> 89]
    /\ snapped_bbox.box = [x0 |-> -5, y0 |-> -15, x1 |-> 170, y1 |-> 85]
    /\ resnapped_bbox.box = snapped_bbox.box

(***************************************************************************)
(* Strings of a request.  A string is the sequence of its tokens: the      *)
(* separators ":" and "," and the runs of characters between them.  None   *)
(* (a key the payload does not hold) is Absent.                            *)
(***************************************************************************)
Absent == [present |-> FALSE, text |-> <<>>]
Str(t) == [present |-> TRUE, text |-> t]

\* str.lower() of one token
LowerToken(t) ==
    CASE t = "GeoTIFF" -> "geotiff"
      [] t = "Structural" -> "structural"
      [] OTHER -> t

\* str.lower()
Lower(text) == [k \in 1..Len(text) |-> LowerToken(text[k])]

\* the positions of sep in text
SepPositions(text, sep) == {k \in 1..Len(text) : text[k] = sep}

\* text.partition(sep)[::2]: the parts before and after the first sep
Partition(text, sep) ==
    IF SepPositions(text, sep) = {} THEN <<text, <<>>>>
    ELSE LET k == Min(SepPositions(text, sep))
         IN  <<SubSeq(text, 1, k - 1), SubSeq(text, k + 1, Len(text))>>

\* text.split(sep): the parts between the separators ("".split(",") is [""])
RECURSIVE Split(_, _)
Split(text, sep) ==
    IF SepPositions(text, sep) = {} THEN <<text>>
    ELSE LET k == Min(SepPositions(text, sep))
         IN  <<SubSeq(text, 1, k - 1)>> \o Split(SubSeq(text, k + 1, Len(text)), sep)

\* the numerals that occur in the modelled requests, and their values
Numerals == {"-10", "0", "10", "12", "34", "90", "200"}
NumberOf(t) ==
    CASE t = "-10" -> -10
      [] t = "0" -> 0
      [] t = "10" -> 10
      [] t = "12" -> 12
      [] t = "34" -> 34
      [] t = "90" -> 90
      [] t = "200" -> 200

\* whether float(part) / int(part) raises ValueError
IsNumber(part) == Len(part) = 1 /\ part[1] \in Numerals

(***************************************************************************)
(* Configuration read by the validators.                                   *)
(***************************************************************************)
\* DatasetType.__members__ (gfdrr_det/constants.py)
DatasetTypeMembers == {"exposure", "hazard", "vulnerability"}

\* settings.OSEOSERVER_PROCESSING_OPTIONS: the choices of each option
ProcessingOptions ==
    [format |-> {<<"geotiff">>, <<"shapefile">>}, vulnerabilityFormat |-> {<<"xlsx">>}]

\* settings.HEV_E["EXPOSURES"]["taxonomy_mappings"]["mapping"]
TaxonomyMapping == [structural |-> {"concrete", "steel"}]

(***************************************************************************)
(* The validators of to_internal_value.  Each returns the exception it     *)
(* raises (NoError when it returns) and its value.                         *)
(***************************************************************************)
\* _validate_layer(layer_str)
ValidateLayer(layer_str) ==
    LET collection == Partition(layer_str, ":")[1]
    IN  IF ~(\E m \in DatasetTypeMembers : collection = <<m>>)
        THEN [error |-> ValidationError("layer"), collection |-> ""]
        ELSE [error |-> NoError, collection |-> collection[1]]

\* _validate_format(format_str, collection)
ValidateFormat(format_str, collection) ==
    LET format_choices ==
            IF collection = "vulnerability" THEN ProcessingOptions.vulnerabilityFormat
            ELSE ProcessingOptions.format
    IN  IF format_str \notin format_choices THEN ValidationError("format") ELSE NoError

\* _parse_bbox(bbox_str)
ParseBbox(bbox_str) ==
    LET parts == Split(bbox_str, ",")
    IN  IF Len(parts) # 4 \/ \E k \in 1..Len(parts) : ~IsNumber(parts[k])
        THEN [error |-> ValidationError("bbox"), box |-> NoBox]
        ELSE LET x0 == NumberOf(parts[1][1])
                 y0 == NumberOf(parts[2][1])
                 x1 == NumberOf(parts[3][1])
                 y1 == NumberOf(parts[4][1])
                 valid_x == LonMin <= x0 /\ x0 <= LonMax /\ LonMin <= x1 /\ x1 <= LonMax
                 valid_y == LatMin <= y0 /\ y0 <= LatMax /\ LatMin <= y1 /\ y1 <= LatMax
             IN  IF ~(valid_x /\ valid_y)
                 THEN [error |-> ValidationError("bbox"), box |-> NoBox]
                 ELSE [error |-> NoError,
                       box |-> [x0 |-> x0, y0 |-> y0, x1 |-> x1, y1 |-> y1]]

\* one cat_info of _parse_categories: whether it is accepted
CategoryAccepted(info) ==
    LET parts == Split(info, ":")
    IN  /\ Len(parts) = 2
        /\ \E cat_type \in DOMAIN TaxonomyMapping :
               /\ parts[1] = <<cat_type>>
               /\ \E cat_value \in TaxonomyMapping[cat_type] : parts[2] = <<cat_value>>

\* _parse_categories(taxonomic_categories_str)
ParseCategories(taxonomic_categories_str) ==
    LET infos == [k \in 1..Len(Split(taxonomic_categories_str, ",")) |->
                      Lower(Split(taxonomic_categories_str, ",")[k])]
    IN  IF \E k \in 1..Len(infos) : ~CategoryAccepted(infos[k])
        THEN [error |-> ValidationError("taxonomic_categories"), value |-> <<>>]
        ELSE [error |-> NoError, value |-> infos]

\* _parse_event_ids(raw_event_ids)
ParseEventIds(raw_event_ids) ==
    IF \E k \in 1..Len(raw_event_ids) : raw_event_ids[k] \notin Numerals
    THEN [error |-> ValidationError("event_ids"), value |-> <<>>]
    ELSE [error |-> NoError,
          value |-> [k \in 1..Len(raw_event_ids) |-> NumberOf(raw_event_ids[k])]]

(***************************************************************************)
(* One iteration of "for item in requested_items" of to_internal_value.    *)
(***************************************************************************)
NoValue == [present |-> FALSE, value |-> <<>>]
NoBbox == [present |-> FALSE, box |-> NoBox]
NoOrderItem ==
    [layer |-> <<>>, format |-> <<>>, bbox |-> NoBbox,
     taxonomic_categories |-> NoValue, event_ids |-> NoValue]

\* layer = item.get("layer"); the "required" test; _validate_layer(layer)
LayerOutcome(item) ==
    IF ~item.layer.present \/ item.layer.text = <<>>
    THEN [error |-> ValidationError("layer"), collection |-> ""]
    ELSE ValidateLayer(item.layer.text)

\* format_ = item.get("format", "").lower()
FormatOf(item) == Lower(IF item.format.present THEN item.format.text ELSE <<>>)

\* the "required" test of format_; _validate_format(format_, collection)
FormatOutcome(item, collection) ==
    IF FormatOf(item) = <<>> THEN ValidationError("format")
    ELSE ValidateFormat(FormatOf(item), collection)

\* bbox = snap_bbox_to_grid(grid_resolution, **parsed_bbox), from its outcome
SnappedBbox(snapped_) ==
    IF snapped_.error # NoError THEN [error |-> snapped_.error, bbox |-> NoBbox]
    ELSE [error |-> NoError, bbox |-> [present |-> TRUE, box |-> snapped_.box]]

\* the statements after "parsed_bbox = _parse_bbox(bbox_str)"
BboxOfParsed(parsed_bbox, res) ==
    IF parsed_bbox.error # NoError THEN [error |-> parsed_bbox.error, bbox |-> NoBbox]
    ELSE IF res.configured THEN SnappedBbox(SnapBboxToGrid(res.value, parsed_bbox.box))
    ELSE [error |-> NoError, bbox |-> [present |-> TRUE, box |-> parsed_bbox.box]]

\* bbox_str = item.get("bbox") ... bbox = None
BboxOutcome(item, res) ==
    IF item.bbox.present /\ item.bbox.text # <<>>
    THEN BboxOfParsed(ParseBbox(item.bbox.text), res)
    ELSE [error |-> NoError, bbox |-> NoBbox]

\* order_item["taxonomic_categories"] = _parse_categories(cats)
CategoriesFilter(cats) ==
    [error |-> cats.error,
     taxonomic_categories |->
         IF cats.error = NoError THEN [present |-> TRUE, value |-> cats.value] ELSE NoValue,
     event_ids |-> NoValue]

\* order_item["event_ids"] = _parse_event_ids(ids)
EventIdsFilter(ids) ==
    [error |-> ids.error,
     taxonomic_categories |-> NoValue,
     event_ids |->
         IF ids.error = NoError THEN [present |-> TRUE, value |-> ids.value] ELSE NoValue]

NoFilter == [error |-> NoError, taxonomic_categories |-> NoValue, event_ids |-> NoValue]

\* a slip: event_ids is parsed whatever the collection
MutFilterOutcome(item, collection) ==
    IF item.event_ids.present /\ ParseEventIds(item.event_ids.text).error # NoError
    THEN EventIdsFilter(ParseEventIds(item.event_ids.text))
    ELSE IF collection = "exposure" /\ item.taxonomic_categories.present
    THEN CategoriesFilter(ParseCategories(item.taxonomic_categories.text))
    ELSE IF collection = "hazard" /\ item.event_ids.present
    THEN EventIdsFilter(ParseEventIds(item.event_ids.text))
    ELSE NoFilter

\* if collection == DatasetType.exposure.name: ... elif ... hazard.name: ...
FilterOutcome(item, collection) ==
    IF collection = "exposure"
    THEN IF item.taxonomic_categories.present
         THEN CategoriesFilter(ParseCategories(item.taxonomic_categories.text))
         ELSE NoFilter
    ELSE IF collection = "hazard"
    THEN IF item.event_ids.present
         THEN EventIdsFilter(ParseEventIds(item.event_ids.text))
         ELSE NoFilter
    ELSE NoFilter

Raised(err) == [error |-> err, order_item |-> NoOrderItem]

\* order_item = {...}, completed by the filter of the collection
OrderItemOf(item, bbox_, filter_) ==
    IF filter_.error # NoError THEN Raised(filter_.error)
    ELSE [error |-> NoError,
          order_item |-> [layer |-> item.layer.text,
                          format |-> FormatOf(item),
                          bbox |-> bbox_.bbox,
                          taxonomic_categories |-> filter_.taxonomic_categories,
                          event_ids |-> filter_.event_ids]]

\* the loop body from "bbox_str = item.get("bbox")" on
AfterFormat(item, collection, bbox_) ==
    IF bbox_.error # NoError THEN Raised(bbox_.error)
    ELSE OrderItemOf(item, bbox_, FilterOutcome(item, collection))

\* the loop body from "format_ = item.get("format", "").lower()" on
AfterLayer(item, res, collection, format_) ==
    IF format_ # NoError THEN Raised(format_)
    ELSE AfterFormat(item, collection, BboxOutcome(item, res))

\* the loop body after the layer is read; layer_ is the outcome of its checks
CheckItem(item, res, layer_) ==
    IF layer_.error # NoError THEN Raised(layer_.error)
    ELSE AfterLayer(item, res, layer_.collection, FormatOutcome(item, layer_.collection))

\* the body of the loop: the exception that leaves it, or the order_item appended
ItemOutcome(item, res) == CheckItem(item, res, LayerOutcome(item))

(***************************************************************************)
(* Spec: OrderSerializer.to_internal_value(data).  The payload's items are *)
(* drawn when the loop reaches them, notification_email when it is read.   *)
(***************************************************************************)
Layers ==
    {Absent, Str(<<"exposure", ":", "res1">>), Str(<<"hazard", ":", "h1">>),
     Str(<<"bogus", ":", "x">>)}
Formats == {Absent, Str(<<"GeoTIFF">>), Str(<<"bogus">>)}
BboxStrings ==
    {Absent, Str(<<"a", ",", "b", ",", "c">>),
     Str(<<"0", ",", "0", ",", "200", ",", "0">>),
     Str(<<"-10", ",", "0", ",", "10", ",", "90">>)}
CategoryStrings ==
    {Absent, Str(<<"Structural", ":", "concrete", ",", "structural", ":", "steel">>),
     Str(<<"structural", ":", "concrete", ",", "unknown", ":", "x">>)}
EventIdLists == {Absent, Str(<<"12", "34">>), Str(<<"12", "x">>)}

Items ==
    [layer : Layers, format : Formats, bbox : BboxStrings,
     taxonomic_categories : CategoryStrings, event_ids : EventIdLists]

\* bbox_snap_resolution: not configured, zero, fine enough, too coarse
ConfiguredResolutions ==
    {NoResolution, [configured |-> TRUE, value |-> 0],
     [configured |-> TRUE, value |-> 60], [configured |-> TRUE, value |-> 100]}

Init ==
    /\ pc = "to_internal_value"
    /\ error = NoError
    /\ grid_resolution \in ConfiguredResolutions
    /\ data \in [has_order_items : BOOLEAN, n_items : 0..MaxItems]
    /\ data.has_order_items \/ data.n_items = 0
    /\ requested_items = <<>>
    /\ item_index = 0
    /\ order_items = <<>>
    /\ internal_value = NotReturned
    /\ resolution = 0
    /\ grid = <<>>
    /\ GridFrameIdle /\ SnapFrameIdle /\ BBoxFrameIdle

\* if not requested_items: raise ValidationError({"order_items": ...})
RejectNoItems ==
    /\ pc = "to_internal_value"
    /\ ~data.has_order_items \/ data.n_items = 0
    /\ pc' = "raised"
    /\ error' = ValidationError("order_items")
    /\ UNCHANGED <<resolution, grid, gridFrame, snapFrame, bboxFrame, orderFrame>>

\* order_items = []; the loop begins
EnterItems ==
    /\ pc = "to_internal_value"
    /\ data.has_order_items /\ data.n_items > 0
    /\ pc' = "loop"
    /\ order_items' = <<>>
    /\ UNCHANGED <<error, resolution, grid, gridFrame, snapFrame, bboxFrame,
                   grid_resolution, data, requested_items, item_index, internal_value>>

\* one iteration that ends with order_items.append(order_item)
Accept(item, outcome) ==
    /\ outcome.error = NoError
    /\ requested_items' = Append(requested_items, item)
    /\ order_items' = Append(order_items, outcome.order_item)

AcceptItem ==
    /\ pc = "loop"
    /\ item_index < data.n_items
    /\ \E item \in Items : Accept(item, ItemOutcome(item, grid_resolution))
    /\ item_index' = item_index + 1
    /\ UNCHANGED <<pc, error, resolution, grid, gridFrame, snapFrame, bboxFrame,
                   grid_resolution, data, internal_value>>

\* one iteration that an exception leaves
Reject(item, outcome) ==
    /\ outcome.error # NoError
    /\ requested_items' = Append(requested_items, item)
    /\ error' = outcome.error

RejectItem ==
    /\ pc = "loop"
    /\ item_index < data.n_items
    /\ \E item \in Items : Reject(item, ItemOutcome(item, grid_resolution))
    /\ item_index' = item_index + 1
    /\ pc' = "raised"
    /\ UNCHANGED <<resolution, grid, gridFrame, snapFrame, bboxFrame,
                   grid_resolution, data, order_items, internal_value>>

\* notification_email = data.get("notification_email"); return result
ReturnValue ==
    /\ pc = "loop"
    /\ item_index = data.n_items
    /\ \E has_email \in BOOLEAN :
           internal_value' = [returned |-> TRUE, order_items |-> order_items,
                              has_email |-> has_email]
    /\ pc' = "returned"
    /\ UNCHANGED <<error, resolution, grid, gridFrame, snapFrame, bboxFrame,
                   grid_resolution, data, requested_items, item_index, order_items>>

Next ==
    \/ RejectNoItems
    \/ EnterItems
    \/ AcceptItem
    \/ RejectItem
    \/ ReturnValue

Spec == Init /\ [][Next]_vars

(***************************************************************************)
(* Claims about to_internal_value (Spec).                                  *)
(***************************************************************************)
FieldNames ==
    {"layer", "format", "bbox", "taxonomic_categories", "event_ids", "order_items"}

\* C6: the "Could not snap value" error of snap_value is unreachable from
\* order intake: for every configured resolution > 0 and every bbox that
\* passes the range validation, to_internal_value never raises it.
C6_SnapErrorUnreachable == error # CouldNotSnapError

\* C7: for every configured resolution (absent, zero, positive) every failure
\* of to_internal_value is a validation error tagged with one of the six
\* field names; the only other error it can raise is the snap_value one.
C7_OnlyValidationErrors ==
    pc = "raised" =>
        \/ error.kind = "ValidationError" /\ error.detail \in FieldNames
        \/ error = CouldNotSnapError

\* the collection named by the layer of an item
CollectionOf(item) == Partition(item.layer.text, ":")[1]

LayerPasses(item) ==
    /\ item.layer.present
    /\ item.layer.text # <<>>
    /\ \E m \in DatasetTypeMembers : CollectionOf(item) = <<m>>

FormatPasses(item) ==
    /\ FormatOf(item) # <<>>
    /\ ValidateFormat(FormatOf(item), CollectionOf(item)[1]) = NoError

\* the kind-specific filter of an item: categories for exposure, ids for hazard
ChecksCategories(item) ==
    CollectionOf(item) = <<"exposure">> /\ item.taxonomic_categories.present
ChecksEventIds(item) ==
    CollectionOf(item) = <<"hazard">> /\ item.event_ids.present

\* the error of the first failing check of an item, in the order layer,
\* format, bbox, kind-specific filter; NoError when every check passes
FirstFailure(item) ==
    IF ~LayerPasses(item) THEN ValidationError("layer")
    ELSE IF ~FormatPasses(item) THEN ValidationError("format")
    ELSE IF BboxOutcome(item, grid_resolution).error # NoError
    THEN BboxOutcome(item, grid_resolution).error
    ELSE IF ChecksCategories(item)
    THEN ParseCategories(item.taxonomic_categories.text).error
    ELSE IF ChecksEventIds(item)
    THEN ParseEventIds(item.event_ids.text).error
    ELSE NoError

\* the normalized item of an item that passes every check
Normalized(item) ==
    [layer |-> item.layer.text,
     format |-> FormatOf(item),
     bbox |-> BboxOutcome(item, grid_resolution).bbox,
     taxonomic_categories |->
         IF ChecksCategories(item)
         THEN [present |-> TRUE,
               value |-> ParseCategories(item.taxonomic_categories.text).value]
         ELSE NoValue,
     event_ids |->
         IF ChecksEventIds(item)
         THEN [present |-> TRUE, value |-> ParseEventIds(item.event_ids.text).value]
         ELSE NoValue]

NoItemsRequested == ~data.has_order_items \/ data.n_items = 0

\* C8: the items are processed in request order and each is checked for
\* layer, format, bbox and its kind-specific filter, in that order (the other
\* filter is neither validated nor output).  If every check passes the
\* result holds one normalized item per requested item, in the same order;
\* otherwise the error of the first failing check of the first failing item
\* is raised and nothing is returned.  An empty or missing order_items list
\* raises an error tagged order_items.
C8_ItemsCheckedInOrder ==
    /\ (pc # "to_internal_value" /\ NoItemsRequested) =>
           pc = "raised" /\ error = ValidationError("order_items")
    /\ (pc = "raised" /\ ~NoItemsRequested) =>
           /\ requested_items # <<>>
           /\ \A j \in 1..(Len(requested_items) - 1) :
                  FirstFailure(requested_items[j]) = NoError
           /\ FirstFailure(requested_items[Len(requested_items)]) # NoError
           /\ error = FirstFailure(requested_items[Len(requested_items)])
    /\ pc = "raised" => internal_value = NotReturned
    /\ pc = "loop" =>
           /\ Len(order_items) = Len(requested_items)
           /\ \A k \in 1..Len(requested_items) :
                  order_items[k] = Normalized(requested_items[k])
    /\ pc = "returned" =>
           /\ internal_value.returned
           /\ Len(requested_items) = data.n_items
           /\ Len(internal_value.order_items) = data.n_items
           /\ \A k \in 1..Len(requested_items) :
                  /\ FirstFailure(requested_items[k]) = NoError
                  /\ internal_value.order_items[k] = Normalized(requested_items[k])

\* two items were returned: an exposure item whose malformed event_ids were
\* not looked at, then a hazard item whose malformed categories were not
C8_Witness ==
    /\ pc = "returned"
    /\ Len(requested_items) = 2
    /\ CollectionOf(requested_items[1]) = <<"exposure">>
    /\ requested_items[1].event_ids = Str(<<"12", "x">>)
    /\ internal_value.order_items[1].taxonomic_categories.present
    /\ ~internal_value.order_items[1].event_ids.present
    /\ CollectionOf(requested_items[2]) = <<"hazard">>
    /\ requested_items[2].taxonomic_categories =
           Str(<<"structural", ":", "concrete", ",", "unknown", ":", "x">>)
    /\ internal_value.order_items[2].event_ids = [present |-> TRUE, value |-> <<12, 34>>]
    /\ internal_value.order_items[2].bbox.present

====
